---- MODULE Spec2Model ----
(***************************************************************************)
(* Model of the service monitor: the state store and its decision engine   *)
(* (state.py), the authenticated PocketBase client, the probes and the     *)
(* district metrics detector (checker.py), the check cycle and the         *)
(* scheduler (monitor.py) and the state of the display they touch          *)
(* (display.py).                                                           *)
(***************************************************************************)
EXTENDS Integers, Sequences, FiniteSets, TLC

(***************************************************************************)
(* Bounds of the model.                                                    *)
(***************************************************************************)
MaxEvals == 6
MaxThreshold == 3
WarmCycles == 9
MaxConcEvals == 2
MaxReads == 2
MaxResults == 2
MaxCycles == 3
IntervalTicks == 2
MaxStarts == 3
MaxTriggers == 2
TicksPerSecond == 2

(***************************************************************************)
(* Program constants.                                                      *)
(***************************************************************************)
PruneLimit == 10
ReadLimit == 10
PbAttempts == 2
DefaultThreshold == 2
MetricsPerPage == 2
ScrapperTimeout == 1800
ErrorWindow == 300
SecondsPerMinute == 60
KstHours == 9

ServiceList == <<"svcA", "svcB">>
Services == {ServiceList[i] : i \in 1..Len(ServiceList)}
NameOrder(name) == CHOOSE i \in 1..Len(ServiceList) : ServiceList[i] = name

OkMessages == {"HTTP 200"}
ErrMessages == {"HTTP 500", "timeout"}

VARIABLES
    service_state,   \* table service_state: a set of rows keyed by service_name
    check_history,   \* table check_history: a set of rows keyed by id
    history_seq,     \* AUTOINCREMENT counter of check_history.id
    threshold,       \* config.consecutive_error_threshold
    clock,           \* the instant the next probe result carries in checked_at
    ret,             \* <<StateChange>> returned by the last evaluate, <<>> before
    io,              \* per service: the results evaluated and the changes returned
    evals,           \* number of evaluations made by this run of the model
    \* the check thread inside evaluate, the display thread inside get_all_states
    wpc,             \* statement of evaluate the check thread executes next
    wres,            \* <<CheckResult>> being evaluated
    wprev,           \* <<previous row>> fetched by the SELECT of evaluate
    rpc,             \* statement of get_all_states the display thread executes next
    rrows,           \* rows fetched by the first SELECT of get_all_states
    rout,            \* the list "states" built so far
    view,            \* list returned by the last completed get_all_states
    reads,           \* number of completed get_all_states calls
    committed,       \* per service: what a read right after each commit returns
    \* PocketBaseAuth and _pb_get
    tokens,          \* PocketBaseAuth._tokens: per backend URL <<token>>, or <<>> for no entry
    lastCall,        \* the last call made on the client: its arguments, result and requests
    \* _check_district_metrics
    fetched,         \* whether the metrics request returned data
    items,           \* data["items"] of the metrics request, newest first
    mout,            \* the list the detector returned
    mpc,             \* "input" while the response is made up, "done" after the call
    \* Monitor.check_all
    cpc,             \* position of the check thread inside check_all, "idle" between cycles
    cidx,            \* index in the service list of the service being handled
    cres,            \* <<CheckResult>> of the probe just made, <<>> otherwise
    system_error,    \* Display._system_error: <<message>>, or <<>> for None
    need_refresh,    \* Display._need_refresh
    enabled,         \* Display.enabled
    clog,            \* calls made by the current (or last) cycle, in order
    cycles,          \* number of check_all calls that have returned or raised
    netlog,          \* outcomes of the _check_network calls made: "up" or "down"
    startDb,         \* <<tables>> as they were when the current cycle started
    \* Monitor.run, Monitor.stop and Monitor._display_loop
    run_pc,          \* position of the main thread inside run
    running,         \* Monitor.running
    force_check,     \* Monitor._force_check: the flag of the threading.Event
    triggered,       \* local "triggered" of run: what the last wait returned
    waited,          \* ticks the current wait has blocked so far
    store_open,      \* whether the sqlite3 connection is open
    pending,         \* evaluations whose writes the connection holds uncommitted
    completed,       \* evaluations that have returned
    durable,         \* evaluations whose writes are committed
    run_i,           \* index of the service the running cycle handles
    started,         \* number of check_all calls started
    dpc,             \* position of the display thread inside _display_loop
    btn_prev,        \* Display._btn_prev: last level read, per pin
    trigs,           \* number of set() calls on _force_check since the last clear()
    wake,            \* the last wait to return: ticks it blocked, set() calls since the last clear(), outcome
    lateTick,        \* whether a wait has blocked for a tick with the flag set
    startedAtStop,   \* <<started>> as it was when stop was called, <<>> before
    \* checker.check_service
    probeIn,         \* <<descriptor and remote behaviour>> of the probe, <<>> before
    probeOut,        \* <<outcome>> of the probe, <<>> before
    ppc              \* "idle" before the call, "done" after it, "off" outside

storeVars == <<service_state, check_history, history_seq, threshold, clock, ret, io, evals>>

concVars == <<wpc, wres, wprev, rpc, rrows, rout, view, reads, committed>>

authVars == <<tokens, lastCall>>

metricsVars == <<fetched, items, mout, mpc>>

cycleVars == <<cpc, cidx, cres, system_error, need_refresh, enabled, clog, cycles,
               netlog, startDb>>

runVars == <<run_pc, running, force_check, triggered, waited, store_open, pending,
             completed, durable, run_i, started, dpc, btn_prev, trigs, wake, lateTick,
             startedAtStop>>

probeVars == <<probeIn, probeOut, ppc>>

monVars == <<cycleVars, runVars, probeVars>>

vars == <<storeVars, concVars, authVars, metricsVars, monVars>>

(***************************************************************************)
(* checker.CheckResult                                                     *)
(***************************************************************************)
CheckResult(name, ok, message, at) ==
    [service_name |-> name, ok |-> ok, message |-> message, checked_at |-> at]

(***************************************************************************)
(* SQL helpers over the two tables.                                        *)
(***************************************************************************)
MaxOf(S) == CHOOSE m \in S : \A x \in S : x <= m
MinOf(S) == CHOOSE m \in S : \A x \in S : m <= x

RECURSIVE TopIds(_, _)
\* SELECT id ... ORDER BY id DESC LIMIT n, as a set of ids
TopIds(ids, n) ==
    IF n <= 0 \/ ids = {} THEN {}
    ELSE LET m == MaxOf(ids) IN {m} \cup TopIds(ids \ {m}, n - 1)

RECURSIVE DescById(_)
\* the rows of a set ordered by id, newest first
DescById(rows) ==
    IF rows = {} THEN <<>>
    ELSE LET m == MaxOf({r.id : r \in rows})
             top == CHOOSE r \in rows : r.id = m
         IN <<top>> \o DescById(rows \ {top})

Reversed(s) == [i \in 1..Len(s) |-> s[Len(s) + 1 - i]]

HistoryOf(history, name) == {h \in history : h.service_name = name}

\* state.py: SELECT ... FROM service_state WHERE service_name = ?  (fetchone)
SelectRow(state, name) == {r \in state : r.service_name = name}

\* the implicit previous row of a service that has none
DefaultPrev ==
    [status |-> "ok", error_count |-> 0, alerted |-> 0, first_error_at |-> <<>>]

PrevRow_any_service(state, name) ==
    IF state = {} THEN DefaultPrev
    ELSE LET r == CHOOSE x \in state : TRUE
         IN [status |-> r.status, error_count |-> r.error_count,
             alerted |-> r.alerted, first_error_at |-> r.first_error_at]

PrevRow(state, name) ==
    LET found == SelectRow(state, name)
    IN IF found = {} THEN DefaultPrev
       ELSE LET r == CHOOSE x \in found : TRUE
            IN [status |-> r.status, error_count |-> r.error_count,
                alerted |-> r.alerted, first_error_at |-> r.first_error_at]

\* INSERT ... ON CONFLICT(service_name) DO UPDATE SET ...
Upsert(state, row) ==
    {r \in state : r.service_name # row.service_name} \cup {row}

(***************************************************************************)
(* StateStore._record_history                                              *)
(***************************************************************************)
InsertHistory(history, seq, name, status, at) ==
    history \cup {[id |-> seq + 1, service_name |-> name, status |-> status,
                   checked_at |-> at]}

PruneHistory_all_services(history, name) ==
    LET keep == TopIds({h.id : h \in history}, PruneLimit)
    IN {h \in history : ~(h.id \notin keep /\ h.service_name = name)}

PruneHistory(history, name) ==
    LET keep == TopIds({h.id : h \in HistoryOf(history, name)}, PruneLimit)
    IN {h \in history : ~(h.id \notin keep /\ h.service_name = name)}

record_history(history, seq, name, status, at) ==
    PruneHistory(InsertHistory(history, seq, name, status, at), name)

(***************************************************************************)
(* StateStore.evaluate: the decisions                                      *)
(***************************************************************************)
is_recovery_any_error(prev, T) == prev.status # "ok"

is_recovery(prev, T) == prev.status # "ok" /\ prev.error_count >= T

new_error_count_no_increment(prev) == prev.error_count

new_error_count(prev) == prev.error_count + 1

new_first_error_always_now(prev, now) == <<now>>

new_first_error(prev, now) ==
    IF prev.first_error_at # <<>> THEN prev.first_error_at ELSE <<now>>

should_alert_every_failure(prev, T) == new_error_count(prev) >= T

should_alert(prev, T) == new_error_count(prev) >= T /\ prev.alerted = 0

already_alerted_never(prev) == FALSE

already_alerted_always(prev) == TRUE

already_alerted(prev) == prev.alerted = 1

new_alerted_below_threshold(prev, T) == 1

new_alerted(prev, T) == IF should_alert(prev, T) \/ already_alerted(prev) THEN 1 ELSE 0

OkRow(result) ==
    [service_name |-> result.service_name, status |-> "ok",
     message |-> result.message, error_count |-> 0, alerted |-> 0,
     last_checked |-> result.checked_at, first_error_at |-> <<>>]

ErrorRow(prev, result, T) ==
    [service_name |-> result.service_name, status |-> "error",
     message |-> result.message, error_count |-> new_error_count(prev),
     alerted |-> new_alerted(prev, T),
     last_checked |-> result.checked_at,
     first_error_at |-> new_first_error(prev, result.checked_at)]

NewRow(prev, result, T) ==
    IF result.ok THEN OkRow(result) ELSE ErrorRow(prev, result, T)

StateChange(prev, result, T) ==
    IF result.ok
    THEN [service_name |-> result.service_name, current_ok |-> TRUE,
          message |-> result.message, error_count |-> 0,
          should_alert |-> FALSE, is_recovery |-> is_recovery(prev, T),
          already_alerted |-> FALSE]
    ELSE [service_name |-> result.service_name, current_ok |-> FALSE,
          message |-> result.message, error_count |-> new_error_count(prev),
          should_alert |-> should_alert(prev, T), is_recovery |-> FALSE,
          already_alerted |-> already_alerted(prev)]

HistoryStatus(result) == IF result.ok THEN "ok" ELSE "error"

\* the whole of evaluate on a database db = [state, history, seq]
evaluate(db, result, T) ==
    LET prev == PrevRow(db.state, result.service_name)
    IN [state |-> Upsert(db.state, NewRow(prev, result, T)),
        history |-> record_history(db.history, db.seq, result.service_name,
                                   HistoryStatus(result), result.checked_at),
        seq |-> db.seq + 1,
        change |-> StateChange(prev, result, T)]

(***************************************************************************)
(* StateStore.get_all_states                                               *)
(***************************************************************************)
\* SELECT status FROM check_history WHERE service_name = ? ORDER BY id DESC
\* LIMIT 10, then reversed: oldest first
ReadHistory_newest_first(history, name) ==
    LET mine == HistoryOf(history, name)
        top == TopIds({h.id : h \in mine}, ReadLimit)
        desc == DescById({h \in mine : h.id \in top})
    IN [i \in 1..Len(desc) |-> desc[i].status]

ReadHistory(history, name) ==
    LET mine == HistoryOf(history, name)
        top == TopIds({h.id : h \in mine}, ReadLimit)
        desc == DescById({h \in mine : h.id \in top})
    IN Reversed([i \in 1..Len(desc) |-> desc[i].status])

StateEntry(r, hist) ==
    [name |-> r.service_name, status |-> r.status, message |-> r.message,
     error_count |-> r.error_count, last_checked |-> r.last_checked,
     history |-> hist]

RECURSIVE RowsByName(_)
\* SELECT ... FROM service_state ORDER BY service_name
RowsByName(state) ==
    IF state = {} THEN <<>>
    ELSE LET m == MinOf({NameOrder(r.service_name) : r \in state})
             first == CHOOSE r \in state : NameOrder(r.service_name) = m
         IN <<first>> \o RowsByName(state \ {first})

get_all_states(state, history) ==
    LET rows == RowsByName(state)
    IN [i \in 1..Len(rows) |-> StateEntry(rows[i], ReadHistory(history, rows[i].service_name))]

(***************************************************************************)
(* checker.PocketBaseAuth: the token cache                                 *)
(***************************************************************************)
Urls == {"pbA", "pbB"}
Tokens == {"t1", "t2"}

\* what the backend answers to auth-with-password
AuthResponses ==
    {[kind |-> "token", token |-> t] : t \in Tokens}
        \cup {[kind |-> k, token |-> ""] : k \in {"no_token", "http_error", "transport"}}

\* what the backend answers to a records request
RecordResponses == {"200", "401", "500", "transport"}

EmptyCache == [u \in Urls |-> <<>>]

AuthEvent(url, resp) ==
    [type |-> "auth", url |-> url, token |-> resp.token, outcome |-> resp.kind]

GetEvent(url, token, status) ==
    [type |-> "get", url |-> url, token |-> token, outcome |-> status]

InvalidateEvent(url) ==
    [type |-> "invalidate", url |-> url, token |-> "", outcome |-> ""]

_authenticate_store_always(cache, url, resp) ==
    [cache |-> [cache EXCEPT ![url] = <<resp.token>>],
     token |-> IF resp.kind = "token" THEN <<resp.token>> ELSE <<>>,
     log |-> <<AuthEvent(url, resp)>>]

\* POST auth-with-password; any exception and a response without token give None
_authenticate(cache, url, resp) ==
    IF resp.kind = "token"
    THEN [cache |-> [cache EXCEPT ![url] = <<resp.token>>],
          token |-> <<resp.token>>,
          log |-> <<AuthEvent(url, resp)>>]
    ELSE [cache |-> cache, token |-> <<>>, log |-> <<AuthEvent(url, resp)>>]

get_token(cache, url, resp) ==
    IF cache[url] # <<>>
    THEN [cache |-> cache, token |-> cache[url], log |-> <<>>]
    ELSE _authenticate(cache, url, resp)

invalidate_nothing(cache, url) == cache

invalidate_everything(cache, url) == EmptyCache

invalidate(cache, url) == [cache EXCEPT ![url] = <<>>]

(***************************************************************************)
(* checker._pb_get: for attempt in range(2)                                *)
(***************************************************************************)
RECURSIVE pb_attempt(_, _, _, _, _)
pb_attempt(cache, url, attempt, authResps, recResps) ==
    IF attempt >= PbAttempts
    THEN [cache |-> cache, data |-> <<>>, log |-> <<>>]
    ELSE LET g == get_token(cache, url, authResps[attempt + 1])
         IN IF g.token = <<>>
            THEN [cache |-> g.cache, data |-> <<>>, log |-> g.log]
            ELSE LET status == recResps[attempt + 1]
                     sent == g.log \o <<GetEvent(url, g.token[1], status)>>
                 IN IF status = "401" /\ attempt = 0
                    THEN LET rest == pb_attempt(invalidate(g.cache, url), url,
                                                attempt + 1, authResps, recResps)
                         IN [cache |-> rest.cache, data |-> rest.data,
                             log |-> sent \o <<InvalidateEvent(url)>> \o rest.log]
                    ELSE IF status = "200"
                    THEN [cache |-> g.cache, data |-> <<"data">>, log |-> sent]
                    ELSE [cache |-> g.cache, data |-> <<>>, log |-> sent]

_pb_get(cache, url, authResps, recResps) ==
    pb_attempt(cache, url, 0, authResps, recResps)

Call(op, url, before, result, log) ==
    [op |-> op, url |-> url, before |-> before, result |-> result, log |-> log]

AuthIdle ==
    /\ tokens = EmptyCache
    /\ lastCall = Call("none", "", EmptyCache, <<>>, <<>>)

(***************************************************************************)
(* checker._check_district_metrics                                         *)
(***************************************************************************)
DistrictList == <<"A", "B", "C">>
DistrictOrder(d) == CHOOSE i \in 1..Len(DistrictList) : DistrictList[i] = d

\* one element of district_results; success "absent": the key is missing,
\* error_message "": the key is missing or empty
DistrictResult(d, s, m) == [district |-> d, success |-> s, error_message |-> m]

LatestResults ==
    {DistrictResult("A", "true", ""), DistrictResult("A", "false", "errA"),
     DistrictResult("B", "absent", ""), DistrictResult("B", "false", ""),
     DistrictResult("C", "true", ""), DistrictResult("C", "false", "errC")}

PreviousResults ==
    {DistrictResult("A", "true", ""), DistrictResult("A", "false", "oldA"),
     DistrictResult("B", "absent", ""), DistrictResult("B", "false", "oldB"),
     DistrictResult("C", "true", ""), DistrictResult("C", "false", "oldC")}

Snapshot(isList, results) == [is_list |-> isList, district_results |-> results]

\* not r.get("success", True)
NotSuccess(r) == r.success = "false"

\* {r["district"] for r in results if not r.get("success", True)}
FailedSet(results) ==
    {results[i].district : i \in {k \in 1..Len(results) : NotSuccess(results[k])}}

RECURSIVE FailedSets(_)
\* one set per record whose district_results is a list
FailedSets(records) ==
    IF records = <<>> THEN <<>>
    ELSE (IF Head(records).is_list
          THEN <<FailedSet(Head(records).district_results)>> ELSE <<>>)
         \o FailedSets(Tail(records))

Persistent_union(sets) == sets[1] \cup sets[2]

Persistent(sets) == sets[1] \cap sets[2]

\* r.get("error_message") or the placeholder
ErrorText(r) == IF r.error_message # "" THEN r.error_message ELSE "unknown cause"

RECURSIVE Reported(_, _)
\* the loop over the latest metric's district_results
Reported(latest, persistent) ==
    IF latest = <<>> THEN <<>>
    ELSE (IF Head(latest).district \in persistent
          THEN <<<<Head(latest).district, ErrorText(Head(latest))>>>> ELSE <<>>)
         \o Reported(Tail(latest), persistent)

RECURSIVE InsertSorted(_, _)
InsertSorted(sorted, x) ==
    IF sorted = <<>> THEN <<x>>
    ELSE IF DistrictOrder(x[1]) < DistrictOrder(Head(sorted)[1])
         THEN <<x>> \o sorted
         ELSE <<Head(sorted)>> \o InsertSorted(Tail(sorted), x)

RECURSIVE SortedByDistrict(_)
\* sorted(result, key=lambda x: x[0]): stable
SortedByDistrict(list) ==
    IF list = <<>> THEN <<>>
    ELSE InsertSorted(SortedByDistrict(SubSeq(list, 1, Len(list) - 1)), list[Len(list)])

_check_district_metrics(gotData, records) ==
    IF ~gotData \/ Len(records) < 2 THEN <<>>
    ELSE LET failed_sets == FailedSets(records)
         IN IF Len(failed_sets) < 2 THEN <<>>
            ELSE SortedByDistrict(Reported(records[1].district_results,
                                           Persistent(failed_sets)))

MetricsIdle ==
    /\ fetched = FALSE
    /\ items = <<>>
    /\ mout = <<>>
    /\ mpc = "idle"

(***************************************************************************)
(* The store driven by a sequence of probe results.                        *)
(***************************************************************************)
Database == [state |-> service_state, history |-> check_history, seq |-> history_seq]

IoEntry(result, change) ==
    [ok |-> result.ok, at |-> result.checked_at,
     error_count |-> change.error_count,
     should_alert |-> change.should_alert, is_recovery |-> change.is_recovery,
     already_alerted |-> change.already_alerted]

EmptyIo == [s \in Services |-> <<>>]

Pins == {23, 24}

CycleIdle ==
    /\ cpc = "off" /\ cidx = 0 /\ cres = <<>>
    /\ system_error = <<>> /\ need_refresh = TRUE /\ enabled = FALSE
    /\ clog = <<>> /\ cycles = 0 /\ netlog = <<>> /\ startDb = <<>>

RunIdle ==
    /\ run_pc = "off" /\ running = TRUE /\ force_check = FALSE /\ triggered = FALSE
    /\ waited = 0 /\ store_open = TRUE /\ pending = 0
    /\ completed = 0 /\ durable = 0 /\ run_i = 0 /\ started = 0
    /\ dpc = "off" /\ btn_prev = [p \in Pins |-> TRUE]
    /\ trigs = 0 /\ wake = [waited |-> 0, sets |-> 0, by |-> "none"] /\ lateTick = FALSE
    /\ startedAtStop = <<>>

ProbeIdle == probeIn = <<>> /\ probeOut = <<>> /\ ppc = "off"

ConcIdle ==
    /\ AuthIdle
    /\ MetricsIdle
    /\ CycleIdle
    /\ RunIdle
    /\ ProbeIdle
    /\ wpc = "idle" /\ wres = <<>> /\ wprev = <<>>
    /\ rpc = "idle" /\ rrows = <<>> /\ rout = <<>> /\ view = <<>>
    /\ reads = 0
    /\ committed = [s \in Services |-> {}]

Init ==
    /\ ConcIdle
    /\ service_state = {}
    /\ check_history = {}
    /\ history_seq = 0
    /\ threshold \in 1..MaxThreshold
    /\ clock = 1
    /\ ret = <<>>
    /\ io = EmptyIo
    /\ evals = 0

Evaluate(s, ok, msg) ==
    /\ evals < MaxEvals
    /\ LET result == CheckResult(s, ok, msg, clock)
           out == evaluate(Database, result, threshold)
       IN /\ service_state' = out.state
          /\ check_history' = out.history
          /\ history_seq' = out.seq
          /\ ret' = <<out.change>>
          /\ io' = [io EXCEPT ![s] = Append(@, IoEntry(result, out.change))]
    /\ clock' = clock + 1
    /\ evals' = evals + 1
    /\ UNCHANGED <<threshold, concVars, authVars, metricsVars, monVars>>

EvaluateOk == \E s \in Services, m \in OkMessages : Evaluate(s, TRUE, m)

EvaluateError == \E s \in Services, m \in ErrMessages : Evaluate(s, FALSE, m)

Next == EvaluateOk \/ EvaluateError

Spec == Init /\ [][Next]_vars

(***************************************************************************)
(* A store that earlier check cycles have filled: WarmCycles cycles over   *)
(* the service list, each evaluating every service once in list order.     *)
(***************************************************************************)
WarmSteps == WarmCycles * Len(ServiceList)

WarmResult(n) ==
    CheckResult(ServiceList[((n - 1) % Len(ServiceList)) + 1], n % 3 # 0,
                IF n % 3 # 0 THEN "HTTP 200" ELSE "HTTP 500", n)

RECURSIVE WarmRun(_, _)
WarmRun(n, T) ==
    IF n = 0 THEN [state |-> {}, history |-> {}, seq |-> 0, io |-> EmptyIo]
    ELSE LET p == WarmRun(n - 1, T)
             result == WarmResult(n)
             out == evaluate([state |-> p.state, history |-> p.history, seq |-> p.seq],
                             result, T)
         IN [state |-> out.state, history |-> out.history, seq |-> out.seq,
             io |-> [p.io EXCEPT ![result.service_name] =
                        Append(@, IoEntry(result, out.change))]]

InitHistory ==
    /\ ConcIdle
    /\ threshold \in 1..MaxThreshold
    /\ LET w == WarmRun(WarmSteps, threshold)
       IN /\ service_state = w.state
          /\ check_history = w.history
          /\ history_seq = w.seq
          /\ io = w.io
    /\ clock = WarmSteps + 1
    /\ ret = <<>>
    /\ evals = 0

SpecHistory == InitHistory /\ [][Next]_vars

(***************************************************************************)
(* Two threads on the one sqlite3 connection (check_same_thread=False):    *)
(* the check thread runs evaluate, the display thread get_all_states.      *)
(* Each conn.execute is one step; statements of the same connection see    *)
(* each other's uncommitted writes, so commit changes nothing a reader of  *)
(* this connection can see.                                                *)
(***************************************************************************)
InitConc ==
    /\ ConcIdle
    /\ service_state = {}
    /\ check_history = {}
    /\ history_seq = 0
    /\ threshold \in 1..MaxThreshold
    /\ clock = 1
    /\ ret = <<>>
    /\ io = EmptyIo
    /\ evals = 0

\* evaluate: SELECT status, error_count, alerted, first_error_at
W_Select(s, ok, msg) ==
    /\ wpc = "idle"
    /\ evals < MaxConcEvals
    /\ wres' = <<CheckResult(s, ok, msg, clock)>>
    /\ wprev' = <<PrevRow(service_state, s)>>
    /\ wpc' = "upsert"
    /\ clock' = clock + 1
    /\ evals' = evals + 1
    /\ UNCHANGED <<service_state, check_history, history_seq, threshold, ret, io,
                   rpc, rrows, rout, view, reads, committed, authVars, metricsVars, monVars>>

W_SelectAny ==
    \/ \E s \in Services, m \in OkMessages : W_Select(s, TRUE, m)
    \/ \E s \in Services, m \in ErrMessages : W_Select(s, FALSE, m)

\* evaluate: INSERT INTO service_state ... ON CONFLICT DO UPDATE
W_Upsert ==
    /\ wpc = "upsert"
    /\ service_state' = Upsert(service_state, NewRow(wprev[1], wres[1], threshold))
    /\ wpc' = "insert"
    /\ UNCHANGED <<check_history, history_seq, threshold, clock, ret, io, evals,
                   wres, wprev, rpc, rrows, rout, view, reads, committed,
                   authVars, metricsVars, monVars>>

\* _record_history: INSERT INTO check_history
W_InsertHistory ==
    /\ wpc = "insert"
    /\ check_history' = InsertHistory(check_history, history_seq, wres[1].service_name,
                                      HistoryStatus(wres[1]), wres[1].checked_at)
    /\ history_seq' = history_seq + 1
    /\ wpc' = "prune"
    /\ UNCHANGED <<service_state, threshold, clock, ret, io, evals,
                   wres, wprev, rpc, rrows, rout, view, reads, committed,
                   authVars, metricsVars, monVars>>

\* _record_history: DELETE FROM check_history WHERE id NOT IN (...)
W_Prune ==
    /\ wpc = "prune"
    /\ check_history' = PruneHistory(check_history, wres[1].service_name)
    /\ wpc' = "commit"
    /\ UNCHANGED <<service_state, history_seq, threshold, clock, ret, io, evals,
                   wres, wprev, rpc, rrows, rout, view, reads, committed,
                   authVars, metricsVars, monVars>>

\* the entry get_all_states gives for service s when nothing runs beside it
EntryOf(state, history, s) ==
    LET r == CHOOSE x \in state : x.service_name = s
    IN StateEntry(r, ReadHistory(history, s))

\* evaluate: commit, return StateChange
W_Commit ==
    /\ wpc = "commit"
    /\ LET change == StateChange(wprev[1], wres[1], threshold)
           s == wres[1].service_name
       IN /\ ret' = <<change>>
          /\ io' = [io EXCEPT ![s] = Append(@, IoEntry(wres[1], change))]
          /\ committed' = [committed EXCEPT ![s] =
                              @ \cup {EntryOf(service_state, check_history, s)}]
    /\ wpc' = "idle"
    /\ wres' = <<>>
    /\ wprev' = <<>>
    /\ UNCHANGED <<service_state, check_history, history_seq, threshold, clock, evals,
                   rpc, rrows, rout, view, reads, authVars, metricsVars, monVars>>

\* get_all_states: SELECT ... FROM service_state ORDER BY service_name
R_SelectRows ==
    /\ rpc = "idle"
    /\ reads < MaxReads
    /\ rrows' = RowsByName(service_state)
    /\ rout' = <<>>
    /\ rpc' = "history"
    /\ UNCHANGED <<storeVars, wpc, wres, wprev, view, reads, committed,
                   authVars, metricsVars, monVars>>

\* get_all_states: one turn of the loop, SELECT status FROM check_history
R_SelectHistory ==
    /\ rpc = "history"
    /\ Len(rout) < Len(rrows)
    /\ LET r == rrows[Len(rout) + 1]
       IN rout' = Append(rout, StateEntry(r, ReadHistory(check_history, r.service_name)))
    /\ UNCHANGED <<storeVars, wpc, wres, wprev, rpc, rrows, view, reads, committed,
                   authVars, metricsVars, monVars>>

\* get_all_states: return states
R_Return ==
    /\ rpc = "history"
    /\ Len(rout) = Len(rrows)
    /\ view' = rout
    /\ reads' = reads + 1
    /\ rpc' = "idle"
    /\ rrows' = <<>>
    /\ rout' = <<>>
    /\ UNCHANGED <<storeVars, wpc, wres, wprev, committed, authVars, metricsVars, monVars>>

NextConc ==
    \/ W_SelectAny \/ W_Upsert \/ W_InsertHistory \/ W_Prune \/ W_Commit
    \/ R_SelectRows \/ R_SelectHistory \/ R_Return

SpecConc == InitConc /\ [][NextConc]_vars

(***************************************************************************)
(* The client driven by calls, the backend answering as it likes.          *)
(***************************************************************************)
StoreIdle ==
    /\ service_state = {}
    /\ check_history = {}
    /\ history_seq = 0
    /\ threshold = DefaultThreshold
    /\ clock = 1
    /\ ret = <<>>
    /\ io = EmptyIo
    /\ evals = 0

InitAuth ==
    /\ StoreIdle
    /\ ConcIdle

DoGetToken(u, resp) ==
    /\ LET g == get_token(tokens, u, resp)
       IN /\ tokens' = g.cache
          /\ lastCall' = Call("get_token", u, tokens, g.token, g.log)
    /\ UNCHANGED <<storeVars, concVars, metricsVars, monVars>>

DoInvalidate(u) ==
    /\ tokens' = invalidate(tokens, u)
    /\ lastCall' = Call("invalidate", u, tokens, <<>>, <<InvalidateEvent(u)>>)
    /\ UNCHANGED <<storeVars, concVars, metricsVars, monVars>>

DoPbGet(u, authResps, recResps) ==
    /\ LET r == _pb_get(tokens, u, authResps, recResps)
       IN /\ tokens' = r.cache
          /\ lastCall' = Call("pb_get", u, tokens, r.data, r.log)
    /\ UNCHANGED <<storeVars, concVars, metricsVars, monVars>>

CallGetToken == \E u \in Urls, resp \in AuthResponses : DoGetToken(u, resp)

CallInvalidate == \E u \in Urls : DoInvalidate(u)

CallPbGet ==
    \E u \in Urls, a0 \in AuthResponses, a1 \in AuthResponses,
       r0 \in RecordResponses, r1 \in RecordResponses :
        DoPbGet(u, <<a0, a1>>, <<r0, r1>>)

NextAuth == CallGetToken \/ CallInvalidate \/ CallPbGet

SpecAuth == InitAuth /\ [][NextAuth]_vars

(***************************************************************************)
(* The detector applied to the responses the metrics collection can give.  *)
(***************************************************************************)
InitMetrics ==
    /\ StoreIdle
    /\ AuthIdle
    /\ CycleIdle /\ RunIdle /\ ProbeIdle
    /\ wpc = "idle" /\ wres = <<>> /\ wprev = <<>>
    /\ rpc = "idle" /\ rrows = <<>> /\ rout = <<>> /\ view = <<>>
    /\ reads = 0
    /\ committed = [s \in Services |-> {}]
    /\ fetched \in BOOLEAN
    /\ items = <<>>
    /\ mout = <<>>
    /\ mpc = "input"

\* the response holds one more (older) record
M_AddRecord(isList) ==
    /\ mpc = "input"
    /\ fetched
    /\ Len(items) < MetricsPerPage
    /\ items' = Append(items, Snapshot(isList, <<>>))
    /\ UNCHANGED <<monVars, storeVars, concVars, authVars, fetched, mout, mpc>>

\* record i holds one more district result
M_AddResult(i, r) ==
    /\ mpc = "input"
    /\ i \in 1..Len(items)
    /\ items[i].is_list
    /\ Len(items[i].district_results) < MaxResults
    /\ items' = [items EXCEPT ![i].district_results = Append(@, r)]
    /\ UNCHANGED <<monVars, storeVars, concVars, authVars, fetched, mout, mpc>>

M_Check ==
    /\ mpc = "input"
    /\ mout' = _check_district_metrics(fetched, items)
    /\ mpc' = "done"
    /\ UNCHANGED <<monVars, storeVars, concVars, authVars, fetched, items>>

M_AddAnyRecord == \E isList \in BOOLEAN : M_AddRecord(isList)

M_AddLatestResult == \E r \in LatestResults : M_AddResult(1, r)

M_AddPreviousResult == \E r \in PreviousResults : M_AddResult(2, r)

NextMetrics == M_AddAnyRecord \/ M_AddLatestResult \/ M_AddPreviousResult \/ M_Check

SpecMetrics == InitMetrics /\ [][NextMetrics]_vars

\* the store of a first start or of a monitor that has run for a while
InitStore == Init \/ InitHistory

SpecStore == InitStore /\ [][Next]_vars

(***************************************************************************)
(* Properties of the decision engine, stated over the results evaluated.   *)
(***************************************************************************)
RECURSIVE FailRunAt(_, _)
\* the number of consecutive failed results of trace that end at position i
FailRunAt(trace, i) ==
    IF i = 0 \/ trace[i].ok THEN 0 ELSE 1 + FailRunAt(trace, i - 1)

RowOf(s) == CHOOSE r \in service_state : r.service_name = s

HasRow(s) == \E r \in service_state : r.service_name = s

\* C1: should_alert is returned exactly at the threshold-th consecutive
\* failure of a run, and the stored alerted flag is 1 exactly while the
\* current failure run has reached the threshold (0 again after an ok).
C1_AlertOncePerRun ==
    \A s \in Services :
        /\ \A i \in 1..Len(io[s]) :
               io[s][i].should_alert <=> FailRunAt(io[s], i) = threshold
        /\ HasRow(s) =>
               (RowOf(s).alerted = 1 <=> FailRunAt(io[s], Len(io[s])) >= threshold)
        /\ HasRow(s) => RowOf(s).alerted \in {0, 1}

C1_Witness ==
    \E s \in Services :
        /\ Len(io[s]) >= threshold + 2
        /\ FailRunAt(io[s], Len(io[s]) - 1) = threshold + 1
        /\ io[s][Len(io[s])].ok
        /\ io[s][Len(io[s]) - 2].should_alert
        /\ RowOf(s).alerted = 0

\* C2: is_recovery is returned exactly by an ok evaluation that directly
\* follows a failure run of at least threshold results; never by a failed
\* evaluation, a first evaluation or an ok after an ok.
C2_RecoveryIffRunReachedThreshold ==
    \A s \in Services : \A i \in 1..Len(io[s]) :
        io[s][i].is_recovery <=>
            (io[s][i].ok /\ i > 1 /\ FailRunAt(io[s], i - 1) >= threshold)

C2_Witness ==
    /\ threshold >= 2
    /\ \E s \in Services :
        /\ \E i \in 1..Len(io[s]) : io[s][i].is_recovery
        /\ \E i \in 2..Len(io[s]) :
               io[s][i].ok /\ ~io[s][i - 1].ok /\ ~io[s][i].is_recovery

\* C3: the error count stored and returned is the number of failed results
\* since the last ok; with threshold 2 the results fail, fail, ok return
\* (1, no alert), (2, alert), (0, recovery).
C3_ErrorCountIsRunLength ==
    \A s \in Services :
        /\ \A i \in 1..Len(io[s]) : io[s][i].error_count = FailRunAt(io[s], i)
        /\ HasRow(s) <=> Len(io[s]) > 0
        /\ HasRow(s) => RowOf(s).error_count = FailRunAt(io[s], Len(io[s]))
        /\ (threshold = 2 /\ Len(io[s]) >= 3 /\ ~io[s][1].ok /\ ~io[s][2].ok /\ io[s][3].ok)
           => /\ io[s][1].error_count = 1 /\ ~io[s][1].should_alert
              /\ io[s][2].error_count = 2 /\ io[s][2].should_alert
              /\ io[s][3].error_count = 0 /\ io[s][3].is_recovery
              /\ ~io[s][3].should_alert

C3_Witness ==
    /\ threshold = 2
    /\ \E s \in Services :
        /\ Len(io[s]) = 3
        /\ ~io[s][1].ok /\ ~io[s][2].ok /\ io[s][3].ok
        /\ RowOf(s).error_count = 0

\* C4: a row with alerted = 1 has status error and an error count that has
\* reached the threshold.
C4_AlertedImpliesThresholdReached ==
    \A r \in service_state :
        r.alerted = 1 => (r.status = "error" /\ r.error_count >= threshold)

C4_Witness ==
    \E r \in service_state : r.alerted = 1 /\ r.error_count > threshold

\* C5: the history table holds at most 10 entries per service, namely the
\* most recently inserted ones, and get_all_states returns them oldest first.
RetainedOf(s) == Reversed(DescById(HistoryOf(check_history, s)))

LastOf(trace, n) ==
    LET k == IF Len(trace) < n THEN Len(trace) ELSE n
    IN [i \in 1..k |-> trace[Len(trace) - k + i]]

C5_HistoryBounded ==
    /\ \A s \in Services :
        LET kept == RetainedOf(s)
            recent == LastOf(io[s], 10)
        IN /\ Cardinality(HistoryOf(check_history, s)) <= 10
           /\ Len(kept) = Len(recent)
           /\ \A i \in 1..Len(kept) :
                  /\ kept[i].checked_at = recent[i].at
                  /\ kept[i].status = (IF recent[i].ok THEN "ok" ELSE "error")
    /\ LET out == get_all_states(service_state, check_history)
       IN \A i \in 1..Len(out) :
              LET recent == LastOf(io[out[i].name], 10)
              IN /\ Len(out[i].history) <= 10
                 /\ out[i].history =
                        [k \in 1..Len(recent) |-> IF recent[k].ok THEN "ok" ELSE "error"]

C5_Witness ==
    \E s \in Services :
        /\ Len(io[s]) > 11
        /\ Cardinality(HistoryOf(check_history, s)) = 10
        /\ \E t \in Services : t # s /\ Len(io[t]) > 0
        /\ \E i, j \in 1..10 : RetainedOf(s)[i].status # RetainedOf(s)[j].status

\* C6: every entry a completed get_all_states returns is what a whole
\* number of completed evaluations of that service left: its row and its
\* history come from the same committed evaluation.
C6_ReaderSeesWholeEvaluations ==
    \A i \in 1..Len(view) : view[i] \in committed[view[i].name]

\* positions of the record requests and of the authentication requests of a call
GetsOf(log) == {i \in 1..Len(log) : log[i].type = "get"}

AuthsOf(log) == {i \in 1..Len(log) : log[i].type = "auth"}

\* C7: in one _pb_get call a rejected first attempt is followed by
\* invalidate and one retry whose token comes from a new authentication
\* request; the retry's answer decides the result, a second rejection ends
\* the call without data; at most 2 record and 2 authentication requests.
C7_RetryOnceWithFreshToken ==
    lastCall.op = "pb_get" =>
        LET log == lastCall.log
            gets == GetsOf(log)
            u == lastCall.url
        IN /\ Cardinality(gets) <= 2
           /\ Cardinality(AuthsOf(log)) <= 2
           /\ \A i \in 1..Len(log) : log[i].url = u
           /\ (gets # {} /\ log[MinOf(gets)].outcome = "401") =>
                  LET i == MinOf(gets)
                  IN /\ Len(log) >= i + 2
                     /\ log[i + 1].type = "invalidate"
                     /\ log[i + 2].type = "auth"
                     /\ IF log[i + 2].outcome = "token"
                        THEN /\ Len(log) = i + 3
                             /\ log[i + 3].type = "get"
                             /\ log[i + 3].token = log[i + 2].token
                             /\ (lastCall.result # <<>>) <=> (log[i + 3].outcome = "200")
                        ELSE /\ Len(log) = i + 2
                             /\ lastCall.result = <<>>
           /\ (gets # {} /\ log[MinOf(gets)].outcome = "200") =>
                  (Cardinality(gets) = 1 /\ lastCall.result # <<>>)

C7_Witness ==
    /\ lastCall.op = "pb_get"
    /\ lastCall.before[lastCall.url] # <<>>
    /\ Len(lastCall.log) = 4
    /\ lastCall.log[1].type = "get" /\ lastCall.log[1].outcome = "401"
    /\ lastCall.log[3].type = "auth"
    /\ lastCall.log[4].type = "get" /\ lastCall.log[4].outcome = "401"
    /\ lastCall.log[3].token = lastCall.log[1].token
    /\ lastCall.result = <<>>

\* C7 as stated: every rejected first attempt is followed by exactly one
\* retry request, sent with a token from a new authentication request.
C7_AlwaysOneRetry ==
    (/\ lastCall.op = "pb_get"
     /\ GetsOf(lastCall.log) # {}
     /\ lastCall.log[MinOf(GetsOf(lastCall.log))].outcome = "401")
        => LET log == lastCall.log
               i == MinOf(GetsOf(log))
           IN /\ Cardinality(GetsOf(log)) = 2
              /\ Len(log) = i + 3
              /\ log[i + 1].type = "invalidate"
              /\ log[i + 2].type = "auth"
              /\ log[i + 3].type = "get"
              /\ log[i + 3].token = log[i + 2].token

\* C8: after a _pb_get whose two record requests were both rejected the
\* cache holds no token for that backend.
C8_CacheEmptyAfterTwoRejections ==
    (/\ lastCall.op = "pb_get"
     /\ Cardinality(GetsOf(lastCall.log)) = 2
     /\ \A i \in GetsOf(lastCall.log) : lastCall.log[i].outcome = "401")
        => tokens[lastCall.url] = <<>>

\* C9: get_token authenticates only on a cache miss; a successful
\* authentication stores and returns that token, a failed one returns none
\* and stores nothing; invalidate removes the entry of its URL only.
C9_TokenCache ==
    /\ lastCall.op = "get_token" =>
        LET u == lastCall.url
            log == lastCall.log
        IN /\ \A v \in Urls \ {u} : tokens[v] = lastCall.before[v]
           /\ (AuthsOf(log) # {}) <=> (lastCall.before[u] = <<>>)
           /\ Len(log) <= 1
           /\ lastCall.before[u] # <<>> =>
                  (lastCall.result = lastCall.before[u] /\ tokens[u] = lastCall.before[u])
           /\ (lastCall.before[u] = <<>> /\ log[1].outcome = "token") =>
                  (tokens[u] = <<log[1].token>> /\ lastCall.result = <<log[1].token>>)
           /\ (lastCall.before[u] = <<>> /\ log[1].outcome # "token") =>
                  (tokens[u] = <<>> /\ lastCall.result = <<>>)
    /\ lastCall.op = "invalidate" =>
           /\ tokens[lastCall.url] = <<>>
           /\ \A v \in Urls \ {lastCall.url} : tokens[v] = lastCall.before[v]
    /\ \A u \in Urls : Len(tokens[u]) <= 1

C9_Witness ==
    /\ lastCall.op = "invalidate"
    /\ lastCall.before[lastCall.url] # <<>>
    /\ \E v \in Urls \ {lastCall.url} : tokens[v] # <<>>

\* the districts a metric record marks failed
MarkedFailed(record) ==
    IF record.is_list
    THEN {d \in {DistrictList[i] : i \in 1..Len(DistrictList)} :
             \E k \in 1..Len(record.district_results) :
                 /\ record.district_results[k].district = d
                 /\ record.district_results[k].success = "false"}
    ELSE {}

ReportedDistricts == {mout[i][1] : i \in 1..Len(mout)}

\* C10: with two metric records the districts reported are those marked
\* failed in both the latest and the previous record.
C10_ReportsIntersection ==
    (mpc = "done" /\ fetched /\ Len(items) = 2) =>
        ReportedDistricts = MarkedFailed(items[1]) \cap MarkedFailed(items[2])

C10_Witness ==
    /\ mpc = "done" /\ fetched /\ Len(items) = 2
    /\ MarkedFailed(items[1]) = {"A", "B"}
    /\ MarkedFailed(items[2]) = {"B", "C"}
    /\ ReportedDistricts = {"B"}

(***************************************************************************)
(* Display: the fields check_all touches.                                  *)
(***************************************************************************)
NetworkDown == "network down"

Disp == [system_error |-> system_error, need_refresh |-> need_refresh]

set_system_error_never_clears(d, message) ==
    IF message # <<>> /\ d.system_error # message
    THEN [system_error |-> message, need_refresh |-> TRUE]
    ELSE d

set_system_error(d, message) ==
    IF d.system_error # message
    THEN [system_error |-> message, need_refresh |-> TRUE]
    ELSE d

mark_dirty(d) == [d EXCEPT !.need_refresh = TRUE]

update(d, en) ==
    IF ~en \/ ~d.need_refresh THEN d ELSE [d EXCEPT !.need_refresh = FALSE]

(* _refresh_display reads the store through get_all_states and redraws.    *)
_refresh_display(d, en) == update(d, en)

(***************************************************************************)
(* Alerter.process: which notification a StateChange leads to.  It holds   *)
(* no reference to the store.                                              *)
(***************************************************************************)
process(change, T) ==
    IF change.is_recovery THEN "recovery"
    ELSE IF change.should_alert THEN "alert"
    ELSE IF ~change.current_ok /\ change.error_count < T THEN "pending"
    ELSE "none"

(***************************************************************************)
(* Monitor.check_all, one call after the other on the check thread.        *)
(***************************************************************************)
CycleEvent(op, service, arg, note) ==
    [op |-> op, service |-> service, arg |-> arg, note |-> note]

OfflineCycle_fails_services(db, d, en) ==
    LET RECURSIVE FailFrom(_, _)
        FailFrom(i, cur) ==
            IF i > Len(ServiceList) THEN cur
            ELSE LET out == evaluate(cur, CheckResult(ServiceList[i], FALSE, "timeout", clock),
                                     threshold)
                 IN FailFrom(i + 1, [state |-> out.state, history |-> out.history,
                                     seq |-> out.seq])
    IN [db |-> FailFrom(1, db),
        display |-> _refresh_display(set_system_error(d, <<NetworkDown>>), en),
        log |-> <<>>]

OfflineCycle(db, d, en) ==
    [db |-> db,
     display |-> _refresh_display(set_system_error(d, <<NetworkDown>>), en),
     log |-> <<>>]

next_service(i) == IF i < Len(ServiceList) THEN i + 1 ELSE 0

InitCycle ==
    /\ StoreIdle
    /\ AuthIdle /\ MetricsIdle /\ RunIdle /\ ProbeIdle
    /\ wpc = "idle" /\ wres = <<>> /\ wprev = <<>>
    /\ rpc = "idle" /\ rrows = <<>> /\ rout = <<>> /\ view = <<>>
    /\ reads = 0
    /\ committed = [s \in Services |-> {}]
    /\ cpc = "idle" /\ cidx = 0 /\ cres = <<>>
    /\ system_error = <<>> /\ need_refresh = TRUE /\ enabled \in BOOLEAN
    /\ clog = <<>> /\ cycles = 0 /\ netlog = <<>> /\ startDb = <<>>

cycleRest == <<threshold, io, evals, concVars, authVars, metricsVars, runVars, probeVars>>

C_NetDown ==
    /\ cpc = "idle"
    /\ cycles < MaxCycles
    /\ LET out == OfflineCycle(Database, Disp, enabled)
       IN /\ service_state' = out.db.state
          /\ check_history' = out.db.history
          /\ history_seq' = out.db.seq
          /\ system_error' = out.display.system_error
          /\ need_refresh' = out.display.need_refresh
          /\ clog' = out.log
    /\ netlog' = Append(netlog, "down")
    /\ startDb' = <<Database>>
    /\ cycles' = cycles + 1
    /\ UNCHANGED <<cpc, cidx, cres, enabled, clock, ret, cycleRest>>

C_NetUp ==
    /\ cpc = "idle"
    /\ cycles < MaxCycles
    /\ LET d == set_system_error(Disp, <<>>)
       IN /\ system_error' = d.system_error
          /\ need_refresh' = d.need_refresh
    /\ netlog' = Append(netlog, "up")
    /\ startDb' = <<Database>>
    /\ clog' = <<>>
    /\ cidx' = 1
    /\ cpc' = "probe"
    /\ UNCHANGED <<service_state, check_history, history_seq, clock, ret, cres, enabled,
                   cycles, cycleRest>>

C_Probe ==
    /\ cpc = "probe"
    /\ \E ok \in BOOLEAN :
          \E msg \in (IF ok THEN OkMessages ELSE ErrMessages) :
              cres' = <<CheckResult(ServiceList[cidx], ok, msg, clock)>>
    /\ clog' = Append(clog, CycleEvent("probe", ServiceList[cidx], <<>>, ""))
    /\ clock' = clock + 1
    /\ cpc' = "evaluate"
    /\ UNCHANGED <<service_state, check_history, history_seq, ret, cidx, system_error,
                   need_refresh, enabled, cycles, netlog, startDb, cycleRest>>

(* check_service lets an exception escape: check_all is left at line 71.   *)
C_ProbeRaises ==
    /\ cpc = "probe"
    /\ clog' = Append(clog, CycleEvent("probe", ServiceList[cidx], <<>>, "raised"))
    /\ cpc' = "raised"
    /\ cycles' = cycles + 1
    /\ UNCHANGED <<service_state, check_history, history_seq, clock, ret, cidx, cres,
                   system_error, need_refresh, enabled, netlog, startDb, cycleRest>>

C_Evaluate ==
    /\ cpc = "evaluate"
    /\ LET out == evaluate(Database, cres[1], threshold)
       IN /\ service_state' = out.state
          /\ check_history' = out.history
          /\ history_seq' = out.seq
          /\ ret' = <<out.change>>
          /\ clog' = Append(clog, CycleEvent("evaluate", ServiceList[cidx],
                                             <<out.change>>, ""))
    /\ cpc' = "process"
    /\ UNCHANGED <<clock, cidx, cres, system_error, need_refresh, enabled, cycles, netlog,
                   startDb, cycleRest>>

C_Process ==
    /\ cpc = "process"
    /\ clog' = Append(clog, CycleEvent("process", ServiceList[cidx], ret,
                                       process(ret[1], threshold)))
    /\ cres' = <<>>
    /\ cidx' = next_service(cidx)
    /\ cpc' = IF next_service(cidx) = 0 THEN "finish" ELSE "probe"
    /\ UNCHANGED <<service_state, check_history, history_seq, clock, ret, system_error,
                   need_refresh, enabled, cycles, netlog, startDb, cycleRest>>

C_Finish ==
    /\ cpc = "finish"
    /\ LET d == _refresh_display(mark_dirty(Disp), enabled)
       IN /\ system_error' = d.system_error
          /\ need_refresh' = d.need_refresh
    /\ cycles' = cycles + 1
    /\ cpc' = "idle"
    /\ UNCHANGED <<service_state, check_history, history_seq, clock, ret, cidx, cres,
                   enabled, clog, netlog, startDb, cycleRest>>

NextCycle ==
    \/ C_NetDown
    \/ C_NetUp
    \/ C_Probe
    \/ C_ProbeRaises
    \/ C_Evaluate
    \/ C_Process
    \/ C_Finish

SpecCycle == InitCycle /\ [][NextCycle]_vars

LastNet == IF netlog = <<>> THEN "none" ELSE netlog[Len(netlog)]

C12_OfflineCycleChangesNothing ==
    LastNet = "down" =>
        /\ startDb = <<Database>>
        /\ \A i \in 1..Len(clog) : clog[i].op # "process"

(* A failed pre-check after a cycle that stored rows.                      *)
C12_Witness ==
    /\ netlog = <<"up", "down">>
    /\ cycles = 2
    /\ service_state # {}
    /\ system_error = <<NetworkDown>>

(***************************************************************************)
(* What a cycle with connectivity has to have called once it is over: for  *)
(* each service in list order its probe, evaluate, and process with the    *)
(* StateChange evaluate returned.                                          *)
(***************************************************************************)
HandledInOrder(log) ==
    /\ Len(log) = 3 * Len(ServiceList)
    /\ \A i \in 1..Len(ServiceList) :
        /\ log[3 * i - 2].op = "probe" /\ log[3 * i - 2].service = ServiceList[i]
        /\ log[3 * i - 2].note # "raised"
        /\ log[3 * i - 1].op = "evaluate" /\ log[3 * i - 1].service = ServiceList[i]
        /\ log[3 * i].op = "process" /\ log[3 * i].service = ServiceList[i]
        /\ log[3 * i].arg = log[3 * i - 1].arg

CycleOver == cpc \in {"idle", "raised"} /\ cycles > 0

(***************************************************************************)
(* C20: a cycle with connectivity that is over has handled every service   *)
(* exactly once, in list order: probe, evaluate, then the alert dispatcher *)
(* with the StateChange evaluate returned.                                 *)
(***************************************************************************)
C20_EveryServiceHandledInOrder ==
    (CycleOver /\ LastNet = "up") => HandledInOrder(clog)

(***************************************************************************)
(* threading.Event as run uses it: set() and clear() write the flag;       *)
(* wait(timeout) returns True at once when the flag is set, False once the *)
(* timeout has run out, and blocks otherwise; the timeout is IntervalTicks *)
(* ticks long.                                                             *)
(***************************************************************************)
event_wait_sleeps(flag, blocked) ==
    IF blocked < IntervalTicks THEN "blocked"
    ELSE IF flag THEN "triggered" ELSE "timeout"

event_wait(flag, blocked) ==
    IF flag THEN "triggered"
    ELSE IF blocked >= IntervalTicks THEN "timeout"
    ELSE "blocked"

(***************************************************************************)
(* The sqlite3 connection as far as durability goes: the evaluations whose *)
(* writes are committed and those whose writes are not yet.  close()       *)
(* discards what is uncommitted.                                           *)
(***************************************************************************)
conn_commit_keeps_pending(d, p) == [durable |-> d + p, pending |-> p]

conn_commit(d, p) == [durable |-> d + p, pending |-> 0]

conn_close_commits(d, p) == [durable |-> d + p, pending |-> 0]

conn_close(d, p) == [durable |-> d, pending |-> 0]

(***************************************************************************)
(* main.shutdown runs as a signal handler on the main thread: stop(), then *)
(* sys.exit(0), whose SystemExit leaves run wherever the main thread was.  *)
(***************************************************************************)
after_shutdown_returns(pc) == pc

after_shutdown(pc) == "exited"

(***************************************************************************)
(* Display.check_buttons with the GPIO present: a pin whose level falls    *)
(* turns the page.                                                         *)
(***************************************************************************)
check_buttons(prev, levels) ==
    [btn_prev |-> levels,
     page_change |-> \E pin \in Pins : prev[pin] /\ ~levels[pin]]

InitRun ==
    /\ StoreIdle
    /\ AuthIdle /\ MetricsIdle /\ CycleIdle /\ ProbeIdle
    /\ wpc = "idle" /\ wres = <<>> /\ wprev = <<>>
    /\ rpc = "idle" /\ rrows = <<>> /\ rout = <<>> /\ view = <<>>
    /\ reads = 0
    /\ committed = [s \in Services |-> {}]
    /\ run_pc = "boot" /\ running = TRUE /\ force_check = FALSE /\ triggered = FALSE
    /\ waited = 0 /\ store_open = TRUE /\ pending = 0
    /\ completed = 0 /\ durable = 0 /\ run_i = 0 /\ started = 0
    /\ dpc = "off" /\ btn_prev = [p \in Pins |-> TRUE]
    /\ trigs = 0 /\ wake = [waited |-> 0, sets |-> 0, by |-> "none"] /\ lateTick = FALSE
    /\ startedAtStop = <<>>

runRest == <<storeVars, concVars, authVars, metricsVars, cycleVars, probeVars>>

(* run, lines 120-124: start the display thread, then the first check_all. *)
R_Boot ==
    /\ run_pc = "boot"
    /\ dpc' = "poll"
    /\ run_pc' = "call"
    /\ UNCHANGED <<running, force_check, triggered, waited, store_open, pending, completed,
                   durable, run_i, started, btn_prev, trigs, wake, lateTick, startedAtStop,
                   runRest>>

(* check_all with connectivity: the loop over the services begins.         *)
R_CycleOnline ==
    /\ run_pc = "call"
    /\ started < MaxStarts
    /\ started' = started + 1
    /\ run_i' = 1
    /\ run_pc' = "evaluate"
    /\ UNCHANGED <<running, force_check, triggered, waited, store_open, pending, completed,
                   durable, dpc, btn_prev, trigs, wake, lateTick, startedAtStop, runRest>>

(* check_all without connectivity: it returns with nothing evaluated.      *)
R_CycleOffline ==
    /\ run_pc = "call"
    /\ started < MaxStarts
    /\ started' = started + 1
    /\ run_pc' = "loop"
    /\ UNCHANGED <<running, force_check, triggered, waited, store_open, pending, completed,
                   durable, run_i, dpc, btn_prev, trigs, wake, lateTick, startedAtStop,
                   runRest>>

(* The probe and the statements of evaluate before its commit; on a closed *)
(* connection execute raises and main ends the process.                    *)
R_EvalWrite ==
    /\ run_pc = "evaluate"
    /\ IF store_open
       THEN /\ pending' = pending + 1
            /\ run_pc' = "commit"
       ELSE /\ pending' = pending
            /\ run_pc' = "exited"
    /\ UNCHANGED <<running, force_check, triggered, waited, store_open, completed, durable,
                   run_i, started, dpc, btn_prev, trigs, wake, lateTick, startedAtStop,
                   runRest>>

(* The commit of evaluate, its return, and the dispatcher call.            *)
R_EvalCommit ==
    /\ run_pc = "commit"
    /\ IF store_open
       THEN /\ durable' = conn_commit(durable, pending).durable
            /\ pending' = conn_commit(durable, pending).pending
            /\ completed' = completed + 1
            /\ run_i' = next_service(run_i)
            /\ run_pc' = IF next_service(run_i) = 0 THEN "loop" ELSE "evaluate"
       ELSE /\ UNCHANGED <<durable, pending, completed, run_i>>
            /\ run_pc' = "exited"
    /\ UNCHANGED <<running, force_check, triggered, waited, store_open, started, dpc,
                   btn_prev, trigs, wake, lateTick, startedAtStop, runRest>>

(* while self.running, line 126 *)
R_Loop ==
    /\ run_pc = "loop"
    /\ IF running
       THEN run_pc' = "wait" /\ waited' = 0
       ELSE run_pc' = "exited" /\ waited' = waited
    /\ UNCHANGED <<running, force_check, triggered, store_open, pending, completed, durable,
                   run_i, started, dpc, btn_prev, trigs, wake, lateTick, startedAtStop,
                   runRest>>

(* One tick passes with the main thread blocked in wait.                   *)
R_WaitTick ==
    /\ run_pc = "wait"
    /\ event_wait(force_check, waited) = "blocked"
    /\ waited' = waited + 1
    /\ lateTick' = (lateTick \/ force_check)
    /\ UNCHANGED <<run_pc, running, force_check, triggered, store_open, pending, completed,
                   durable, run_i, started, dpc, btn_prev, trigs, wake, startedAtStop,
                   runRest>>

(* wait returns, line 128 *)
R_WaitReturns ==
    /\ run_pc = "wait"
    /\ event_wait(force_check, waited) # "blocked"
    /\ triggered' = (event_wait(force_check, waited) = "triggered")
    /\ wake' = [waited |-> waited, sets |-> trigs, by |-> event_wait(force_check, waited)]
    /\ run_pc' = "woke"
    /\ UNCHANGED <<running, force_check, waited, store_open, pending, completed, durable,
                   run_i, started, dpc, btn_prev, trigs, lateTick, startedAtStop, runRest>>

(* if triggered: clear(), lines 129-130 *)
R_Clear ==
    /\ run_pc = "woke"
    /\ IF triggered
       THEN force_check' = FALSE /\ trigs' = 0
       ELSE UNCHANGED <<force_check, trigs>>
    /\ run_pc' = "ifrun"
    /\ UNCHANGED <<running, triggered, waited, store_open, pending, completed, durable,
                   run_i, started, dpc, btn_prev, wake, lateTick, startedAtStop, runRest>>

(* if self.running, line 132 *)
R_IfRunning ==
    /\ run_pc = "ifrun"
    /\ run_pc' = IF running THEN "call" ELSE "loop"
    /\ UNCHANGED <<running, force_check, triggered, waited, store_open, pending, completed,
                   durable, run_i, started, dpc, btn_prev, trigs, wake, lateTick,
                   startedAtStop, runRest>>

(* Monitor.stop, lines 135-140 *)
StopEffects ==
    /\ running' = FALSE
    /\ force_check' = TRUE
    /\ store_open' = FALSE
    /\ durable' = conn_close(durable, pending).durable
    /\ pending' = conn_close(durable, pending).pending
    /\ startedAtStop' = <<started>>

(* SIGTERM or SIGINT arrives: main.shutdown on the main thread.            *)
Shutdown ==
    /\ run_pc \notin {"off", "exited", "store_failed"}
    /\ running
    /\ StopEffects
    /\ run_pc' = after_shutdown(run_pc)
    /\ UNCHANGED <<triggered, waited, completed, run_i, started, dpc, btn_prev, trigs, wake,
                   lateTick, runRest>>

(* check_service raises inside check_all: main's handler calls stop and    *)
(* main returns.                                                           *)
R_ProbeRaises ==
    /\ run_pc = "evaluate"
    /\ running
    /\ StopEffects
    /\ run_pc' = "exited"
    /\ UNCHANGED <<triggered, waited, completed, run_i, started, dpc, btn_prev, trigs, wake,
                   lateTick, runRest>>

(* A statement of evaluate raises sqlite3.Error, before anything was       *)
(* written or with the evaluation's writes uncommitted: nothing in         *)
(* evaluate or check_all catches it, main's handler calls stop and main    *)
(* returns.                                                                *)
R_StoreRaises ==
    /\ run_pc \in {"evaluate", "commit"}
    /\ running
    /\ StopEffects
    /\ run_pc' = "store_failed"
    /\ UNCHANGED <<triggered, waited, completed, run_i, started, dpc, btn_prev, trigs, wake,
                   lateTick, runRest>>

(* Some caller sets the manual-trigger signal.                             *)
Trigger ==
    /\ run_pc \notin {"off", "exited", "store_failed"}
    /\ running
    /\ trigs < MaxTriggers
    /\ force_check' = TRUE
    /\ trigs' = trigs + 1
    /\ UNCHANGED <<run_pc, running, triggered, waited, store_open, pending, completed,
                   durable, run_i, started, dpc, btn_prev, wake, lateTick, startedAtStop,
                   runRest>>

(* _display_loop, lines 96-108: the loop test and one poll of the buttons; *)
(* without a page change the pass either ends in the sleep or, on every    *)
(* fifth pass with the display enabled, goes on to the timed redraw.  The  *)
(* thread is a daemon: it runs on while the main thread leaves run.        *)
D_Poll ==
    /\ dpc = "poll"
    /\ IF running
       THEN \E levels \in [Pins -> BOOLEAN] :
              LET btn == check_buttons(btn_prev, levels)
              IN /\ btn_prev' = btn.btn_prev
                 /\ dpc' \in IF btn.page_change THEN {"pressed"} ELSE {"poll", "timed"}
       ELSE /\ btn_prev' = btn_prev
            /\ dpc' = "done"
    /\ UNCHANGED <<run_pc, running, force_check, triggered, waited, store_open, pending,
                   completed, durable, run_i, started, trigs, wake, lateTick, startedAtStop,
                   runRest>>

(* _display_loop, lines 100 and 108: _refresh_display, whose               *)
(* get_all_states raises sqlite3.ProgrammingError on a closed connection   *)
(* and ends the thread.                                                    *)
D_Refresh ==
    /\ dpc \in {"pressed", "timed"}
    /\ dpc' = IF store_open THEN "poll" ELSE "raised"
    /\ UNCHANGED <<run_pc, running, force_check, triggered, waited, store_open, pending,
                   completed, durable, run_i, started, btn_prev, trigs, wake, lateTick,
                   startedAtStop, runRest>>

NextRun ==
    \/ R_Boot
    \/ R_CycleOnline
    \/ R_CycleOffline
    \/ R_EvalWrite
    \/ R_EvalCommit
    \/ R_Loop
    \/ R_WaitTick
    \/ R_WaitReturns
    \/ R_Clear
    \/ R_IfRunning
    \/ Shutdown
    \/ R_ProbeRaises
    \/ R_StoreRaises
    \/ Trigger
    \/ D_Poll
    \/ D_Refresh

SpecRun == InitRun /\ [][NextRun]_vars

(***************************************************************************)
(* The monitor left running for good.  The counts of cycles started and of *)
(* evaluations completed are started anew when they reach their bound, so  *)
(* that run can loop without end; nothing of the program changes in that   *)
(* step.  The main thread is scheduled and time passes: each step of run   *)
(* that stays possible is taken.  Signals, triggers and the display thread *)
(* come as they like.                                                      *)
(***************************************************************************)
ForgetCounts ==
    /\ run_pc = "call"
    /\ started = MaxStarts
    /\ started' = 1
    /\ completed' = 0
    /\ durable' = 0
    /\ UNCHANGED <<run_pc, running, force_check, triggered, waited, store_open, pending,
                   run_i, dpc, btn_prev, trigs, wake, lateTick, startedAtStop, runRest>>

MainThread ==
    \/ R_Boot
    \/ R_CycleOnline
    \/ R_CycleOffline
    \/ R_EvalWrite
    \/ R_EvalCommit
    \/ R_Loop
    \/ R_WaitTick
    \/ R_WaitReturns
    \/ R_Clear
    \/ R_IfRunning
    \/ ForgetCounts

NextLive == NextRun \/ ForgetCounts

SpecLive == InitRun /\ [][NextLive]_vars /\ WF_vars(MainThread)

(***************************************************************************)
(* C13: while the monitor runs the flag is set exactly when a trigger has  *)
(* arrived since the last clear(), so no trigger is lost and any number of *)
(* them is taken up by one clear(); the wait never blocks for a tick with  *)
(* the flag set; and a wait that returned before its interval ran out      *)
(* returned because of a trigger.                                          *)
(***************************************************************************)
C13_TriggerStartsOneCycleAtOnce ==
    /\ ~lateTick
    /\ running => (force_check <=> trigs > 0)
    /\ wake.by # "none" =>
          /\ wake.waited < IntervalTicks => wake.by = "triggered"
          /\ wake.by = "triggered" <=> wake.sets > 0

(* Two triggers arrived during the first cycle; the wait after it returned *)
(* without blocking, the second cycle ran, and the wait after that one     *)
(* blocks.                                                                 *)
C13_Witness ==
    /\ wake = [waited |-> 0, sets |-> 2, by |-> "triggered"]
    /\ started = 2
    /\ run_pc = "wait" /\ waited = 1
    /\ trigs = 0 /\ ~force_check /\ running

(***************************************************************************)
(* C14: the step of the display loop that detects a button press sets the  *)
(* manual-trigger signal.                                                  *)
(***************************************************************************)
C14_ButtonPressRaisesTrigger ==
    [][(dpc = "poll" /\ dpc' = "pressed") => force_check']_vars

(***************************************************************************)
(* C15: once stop has been called the main thread waits no tick more, no   *)
(* further check_all starts, and the connection is closed with every       *)
(* evaluation that returned committed and nothing uncommitted left.        *)
(***************************************************************************)
C15_StopEndsTheRun ==
    /\ ~running => /\ ~store_open
                   /\ startedAtStop = <<started>>
                   /\ run_pc # "wait"
                   /\ durable = completed /\ pending = 0
    /\ ~lateTick

(* stop called while the wait was blocked, after a cycle that evaluated.   *)
C15_Witness ==
    /\ ~running /\ ~store_open
    /\ run_pc = "exited"
    /\ waited = 1 /\ wake.by = "none"
    /\ completed = Len(ServiceList) /\ durable = completed
    /\ started = 1

(***************************************************************************)
(* The probes of checker.py.  Time is counted in ticks, TicksPerSecond to  *)
(* the second, so that datetime's fractions of a second exist; an instant  *)
(* is a number of ticks on the UTC time line.                              *)
(***************************************************************************)
Seconds(n) == n * TicksPerSecond

KstOffset == Seconds(KstHours * 3600)

\* a field holding a time: how it is written and the wall-clock reading
\* it shows; "age" tells how long before "now" the instant meant lies
TimeField(fmt, wall, age) == [fmt |-> fmt, wall |-> wall, age |-> age]

\* "2026-02-08 09:59:47.957Z": a UTC reading
UtcZ(now, age) == TimeField("utcZ", now - age, age)

\* "2026-02-08 19:01:33": a KST reading
Naive(now, age) == TimeField("naive", (now - age) + KstOffset, age)

\* no time: "missing", the key is missing or empty; "garbage", a string of
\* no known format; "number", a JSON number
NotATime(fmt) == TimeField(fmt, 0, 0)

\* strptime raises TypeError for a value that is no string
_parse_pb_time(v) ==
    IF v.fmt = "missing" \/ v.fmt = "garbage" THEN [kind |-> "none", instant |-> 0]
    ELSE IF v.fmt = "number" THEN [kind |-> "raise", instant |-> 0]
    ELSE IF v.fmt = "utcZ" THEN [kind |-> "time", instant |-> v.wall]
    ELSE [kind |-> "time", instant |-> v.wall - KstOffset]

Result(ok, stage, minutes, detail) ==
    [kind |-> "result", ok |-> ok, stage |-> stage, minutes |-> minutes, detail |-> detail]

Raised(exc) ==
    [kind |-> "raise", ok |-> FALSE, stage |-> exc, minutes |-> 0, detail |-> <<>>]

\* what the site answers to the GET: a final status, or no answer at all
HttpResponses ==
    {[kind |-> "status", code |-> c] : c \in {200, 204, 301, 399, 400, 404, 500}}
        \cup {[kind |-> "transport", code |-> 0]}

check_http_success_only(resp) ==
    IF resp.kind = "transport" THEN Result(FALSE, "connect failed", 0, <<>>)
    ELSE IF 200 <= resp.code /\ resp.code < 300 THEN Result(TRUE, "HTTP", 0, <<resp.code>>)
    ELSE Result(FALSE, "HTTP", 0, <<resp.code>>)

check_http(resp) ==
    IF resp.kind = "transport" THEN Result(FALSE, "connect failed", 0, <<>>)
    ELSE IF 200 <= resp.code /\ resp.code < 400 THEN Result(TRUE, "HTTP", 0, <<resp.code>>)
    ELSE Result(FALSE, "HTTP", 0, <<resp.code>>)

check_pb_admin(resp) ==
    IF resp.kind = "transport" THEN Result(FALSE, "PB connect failed", 0, <<>>)
    ELSE IF resp.code = 200 THEN Result(TRUE, "PB Admin OK", 0, <<>>)
    ELSE Result(FALSE, "PB Admin HTTP", 0, <<resp.code>>)

(***************************************************************************)
(* check_scrapper.  ScrapperConfig tells which optional fields are set;    *)
(* the backend's behaviour is its answers to the requests _pb_get makes    *)
(* and the content of the collections.                                     *)
(***************************************************************************)
ScrapperConfig(status_field, error_collection, metrics_collection) ==
    [status_field |-> status_field, error_collection |-> error_collection,
     metrics_collection |-> metrics_collection]

\* the two of SERVICES, and one with every optional field set
ScrapperConfigs ==
    {ScrapperConfig(FALSE, TRUE, TRUE), ScrapperConfig(TRUE, TRUE, FALSE),
     ScrapperConfig(TRUE, TRUE, TRUE)}

PbUrl == "pbA"

Request(what, got) == [what |-> what, data |-> got.data # <<>>, log |-> got.log]

Probe(out, cache, requests) == [out |-> out, cache |-> cache, requests |-> requests]

elapsed_min(elapsed) == elapsed \div Seconds(SecondsPerMinute)

stale_at_timeout(elapsed, timeout) == elapsed >= Seconds(timeout)

stale(elapsed, timeout) == elapsed > Seconds(timeout)

\* lines 197-208: the district metrics, then the healthy result
check_scrapper_metrics(cfg, cache, b, minutes, requests) ==
    IF cfg.metrics_collection
    THEN LET got == _pb_get(cache, PbUrl, b.fetch[3].auth, b.fetch[3].rec)
             failed == _check_district_metrics(got.data # <<>>, b.metrics)
             reqs == Append(requests, Request("metrics", got))
         IN IF failed # <<>>
            THEN Probe(Result(FALSE, "districts", 0, failed), got.cache, reqs)
            ELSE Probe(Result(TRUE, "ok", minutes, <<>>), got.cache, reqs)
    ELSE Probe(Result(TRUE, "ok", minutes, <<>>), cache, requests)

\* lines 175-195: the newest error-level log record
check_scrapper_errors(cfg, cache, b, minutes, requests) ==
    IF cfg.error_collection
    THEN LET got == _pb_get(cache, PbUrl, b.fetch[2].auth, b.fetch[2].rec)
             reqs == Append(requests, Request("errors", got))
         IN IF got.data # <<>> /\ b.err_items # <<>>
            THEN LET err == b.err_items[1]
                     err_time == _parse_pb_time(err.created)
                 IN IF err_time.kind = "raise"
                    THEN Probe(Raised("TypeError"), got.cache, reqs)
                    ELSE IF err_time.kind = "time"
                            /\ b.now - err_time.instant < Seconds(ErrorWindow)
                    THEN IF err.message = "null"
                         THEN Probe(Raised("TypeError"), got.cache, reqs)
                         ELSE Probe(Result(FALSE, "recent error", 0, <<err.message>>),
                                    got.cache, reqs)
                    ELSE check_scrapper_metrics(cfg, got.cache, b, minutes, reqs)
            ELSE check_scrapper_metrics(cfg, got.cache, b, minutes, reqs)
    ELSE check_scrapper_metrics(cfg, cache, b, minutes, requests)

check_scrapper(sc, cache, b, timeout) ==
    IF sc = <<>> THEN Probe(Result(FALSE, "no config", 0, <<>>), cache, <<>>)
    ELSE LET cfg == sc[1]
             got == _pb_get(cache, PbUrl, b.fetch[1].auth, b.fetch[1].rec)
             reqs == <<Request("latest", got)>>
         IN IF got.data = <<>> \/ b.items = <<>>
            THEN Probe(Result(FALSE, "no data", 0, <<>>), got.cache, reqs)
            ELSE LET latest == b.items[1]
                     last_time == _parse_pb_time(latest.time)
                     elapsed == b.now - last_time.instant
                 IN IF last_time.kind = "raise"
                    THEN Probe(Raised("TypeError"), got.cache, reqs)
                    ELSE IF last_time.kind = "none"
                    THEN Probe(Result(FALSE, "parse failed", 0, <<>>), got.cache, reqs)
                    ELSE IF stale(elapsed, timeout)
                    THEN Probe(Result(FALSE, "stale", elapsed_min(elapsed), <<>>),
                               got.cache, reqs)
                    ELSE IF cfg.status_field /\ latest.status = "stopped"
                    THEN Probe(Result(FALSE, "stopped", 0, <<>>), got.cache, reqs)
                    ELSE check_scrapper_errors(cfg, got.cache, b, elapsed_min(elapsed), reqs)

CheckTypes == {"http", "pb_admin", "scrapper"}

check_service(service, cache, remote, timeout) ==
    IF service.check_type = "http" THEN Probe(check_http(remote.http), cache, <<>>)
    ELSE IF service.check_type = "pb_admin"
    THEN Probe(check_pb_admin(remote.http), cache, <<>>)
    ELSE IF service.check_type = "scrapper"
    THEN check_scrapper(service.scrapper, cache, remote.backend, timeout)
    ELSE Probe(Result(FALSE, "unknown check type", 0, <<service.check_type>>), cache, <<>>)

(***************************************************************************)
(* The remote behaviours a probe is run against.                           *)
(***************************************************************************)
\* the request is answered; it is rejected twice; no token can be had and
\* a cached one is rejected
Answered ==
    [auth |-> <<[kind |-> "token", token |-> "t1"], [kind |-> "token", token |-> "t2"]>>,
     rec |-> <<"200", "200">>]
RejectedTwice ==
    [auth |-> <<[kind |-> "token", token |-> "t1"], [kind |-> "token", token |-> "t2"]>>,
     rec |-> <<"401", "401">>]
NoToken ==
    [auth |-> <<[kind |-> "http_error", token |-> ""], [kind |-> "http_error", token |-> ""]>>,
     rec |-> <<"401", "401">>]

FetchScenarios == {Answered, RejectedTwice, NoToken}

LatestRecords(now) ==
    LET ages == {0 - 1, Seconds(SecondsPerMinute) - 1, Seconds(ScrapperTimeout),
                 Seconds(ScrapperTimeout) + 1, Seconds(2000)}
        times == {UtcZ(now, a) : a \in ages}
                    \cup {Naive(now, a) : a \in {Seconds(ScrapperTimeout),
                                                 Seconds(ScrapperTimeout) + 1}}
                    \cup {NotATime(f) : f \in {"missing", "garbage", "number"}}
    IN {[time |-> t, status |-> st] : t \in times, st \in {"running", "stopped"}}

ErrRecords(now) ==
    {[created |-> UtcZ(now, Seconds(ErrorWindow) - 1), message |-> "boom"],
     [created |-> UtcZ(now, Seconds(ErrorWindow) - 1), message |-> "null"],
     [created |-> UtcZ(now, Seconds(ErrorWindow)), message |-> "boom"],
     [created |-> NotATime("garbage"), message |-> "boom"],
     [created |-> NotATime("number"), message |-> "boom"]}

MetricsItems ==
    {<<>>,
     <<Snapshot(TRUE, <<DistrictResult("A", "false", "errA")>>),
       Snapshot(TRUE, <<DistrictResult("A", "false", "oldA")>>)>>,
     <<Snapshot(TRUE, <<DistrictResult("A", "false", "errA")>>),
       Snapshot(TRUE, <<DistrictResult("A", "true", "")>>)>>}

Backend(now, fetch, latest, errs, metrics) ==
    [now |-> now, fetch |-> fetch, items |-> latest, err_items |-> errs,
     metrics |-> metrics]

Backends ==
    {Backend(0, <<f1, f2, f3>>, latest, errs, metrics) :
        f1 \in FetchScenarios, f2 \in FetchScenarios, f3 \in FetchScenarios,
        latest \in {<<>>} \cup {<<r>> : r \in LatestRecords(0)},
        errs \in {<<>>} \cup {<<e>> : e \in ErrRecords(0)},
        metrics \in MetricsItems}

\* what a probe that asks nothing of the site or of the backend is given
NoHttp == [kind |-> "transport", code |-> 0]
NoBackend == Backend(0, <<Answered, Answered, Answered>>, <<>>, <<>>, <<>>)

Service(check_type, scrapper) == [check_type |-> check_type, scrapper |-> scrapper]

InitProbe ==
    /\ StoreIdle
    /\ MetricsIdle /\ CycleIdle /\ RunIdle
    /\ wpc = "idle" /\ wres = <<>> /\ wprev = <<>>
    /\ rpc = "idle" /\ rrows = <<>> /\ rout = <<>> /\ view = <<>>
    /\ reads = 0
    /\ committed = [s \in Services |-> {}]
    /\ tokens \in {EmptyCache, [EmptyCache EXCEPT ![PbUrl] = <<"t1">>]}
    /\ lastCall = <<>>
    /\ probeIn = <<>> /\ probeOut = <<>> /\ ppc = "idle"

P_Check(service, remote) ==
    /\ ppc = "idle"
    /\ LET r == check_service(service, tokens, remote, ScrapperTimeout)
       IN /\ probeOut' = <<[out |-> r.out, requests |-> r.requests]>>
          /\ tokens' = r.cache
    /\ probeIn' = <<[service |-> service, remote |-> remote]>>
    /\ ppc' = "done"
    /\ UNCHANGED <<storeVars, concVars, lastCall, metricsVars, cycleVars, runVars>>

P_CheckHttp ==
    /\ ppc = "idle"
    /\ \E resp \in HttpResponses :
          P_Check(Service("http", <<>>), [http |-> resp, backend |-> NoBackend])

P_CheckPbAdmin ==
    /\ ppc = "idle"
    /\ \E resp \in HttpResponses :
          P_Check(Service("pb_admin", <<>>), [http |-> resp, backend |-> NoBackend])

P_CheckScrapper ==
    /\ ppc = "idle"
    /\ \E cfg \in ScrapperConfigs, b \in Backends :
          P_Check(Service("scrapper", <<cfg>>), [http |-> NoHttp, backend |-> b])

P_CheckScrapperNoConfig ==
    P_Check(Service("scrapper", <<>>), [http |-> NoHttp, backend |-> NoBackend])

P_CheckUnknown ==
    P_Check(Service("other", <<>>), [http |-> NoHttp, backend |-> NoBackend])

NextProbe ==
    \/ P_CheckHttp
    \/ P_CheckPbAdmin
    \/ P_CheckScrapper
    \/ P_CheckScrapperNoConfig
    \/ P_CheckUnknown

SpecProbe == InitProbe /\ [][NextProbe]_vars

ProbeDone == ppc = "done"

ProbedService == probeIn[1].service

ProbedBackend == probeIn[1].remote.backend

Outcome == probeOut[1].out

(***************************************************************************)
(* C16: check_service returns a result whatever the descriptor and the     *)
(* remote side, and for a kind it does not know a failed one naming the    *)
(* kind; it never raises.                                                  *)
(***************************************************************************)
C16_ProbeAlwaysReturns ==
    ProbeDone =>
        /\ Outcome.kind = "result"
        /\ ProbedService.check_type \notin CheckTypes =>
              /\ ~Outcome.ok
              /\ Outcome.detail = <<ProbedService.check_type>>

ScrapperProbed ==
    /\ ProbeDone
    /\ ProbedService.check_type = "scrapper"
    /\ ProbedService.scrapper # <<>>

ProbedConfig == ProbedService.scrapper[1]

(***************************************************************************)
(* The stages of a scrapper probe, told from the descriptor and from what  *)
(* the backend holds and answers.  A request gets data exactly when the    *)
(* backend answers it.                                                     *)
(***************************************************************************)
Answers(k) == ProbedBackend.fetch[k] = Answered

ValidTime(t) == t.fmt \in {"utcZ", "naive"}

StageFails(n) ==
    LET b == ProbedBackend
        cfg == ProbedConfig
    IN CASE n = 1 -> ~Answers(1) \/ b.items = <<>>
         [] n = 2 -> ~ValidTime(b.items[1].time)
         [] n = 3 -> b.items[1].time.age > Seconds(ScrapperTimeout)
         [] n = 4 -> cfg.status_field /\ b.items[1].status = "stopped"
         [] n = 5 -> /\ cfg.error_collection /\ Answers(2) /\ b.err_items # <<>>
                     /\ ValidTime(b.err_items[1].created)
                     /\ b.err_items[1].created.age < Seconds(ErrorWindow)
         [] n = 6 -> /\ cfg.metrics_collection /\ Answers(3)
                     /\ b.metrics # <<>>
                     /\ b.metrics[2].district_results[1].success = "false"

StageNames == <<"no data", "parse failed", "stale", "stopped", "recent error", "districts">>

RECURSIVE FirstFailing(_)
FirstFailing(n) ==
    IF n > Len(StageNames) THEN 0
    ELSE IF StageFails(n) THEN n ELSE FirstFailing(n + 1)

ExpectedStage == IF FirstFailing(1) = 0 THEN "ok" ELSE StageNames[FirstFailing(1)]

Reaches(n) == FirstFailing(1) = 0 \/ FirstFailing(1) >= n

ExpectedRequests ==
    <<"latest">>
        \o (IF Reaches(5) /\ ProbedConfig.error_collection THEN <<"errors">> ELSE <<>>)
        \o (IF Reaches(6) /\ ProbedConfig.metrics_collection THEN <<"metrics">> ELSE <<>>)

RequestsMade == [i \in 1..Len(probeOut[1].requests) |-> probeOut[1].requests[i].what]

(***************************************************************************)
(* C17: a scrapper probe returns the failure of the first stage that       *)
(* fails, in the order record present, timestamp parse, staleness,         *)
(* stopped status, recent error log, district failure, and ok when none    *)
(* fails; it makes no request of a stage after the failing one.            *)
(***************************************************************************)
C17_FirstFailingStageDecides ==
    ScrapperProbed =>
        /\ Outcome.kind = "result"
        /\ Outcome.stage = ExpectedStage
        /\ Outcome.ok <=> (ExpectedStage = "ok")
        /\ RequestsMade = ExpectedRequests

\* the request got no data and its last exchange is a refused
\* authentication or a second rejection of the token
TerminalFailure(req) ==
    /\ ~req.data
    /\ req.log # <<>>
    /\ LET last == req.log[Len(req.log)]
       IN \/ last.type = "auth" /\ last.outcome # "token"
          \/ last.type = "get" /\ last.outcome = "401"

(***************************************************************************)
(* C18: a scrapper probe one of whose requests ended in terminal failure   *)
(* does not return ok.                                                     *)
(***************************************************************************)
C18_TerminalFailureFailsTheProbe ==
    (ScrapperProbed /\ \E i \in 1..Len(probeOut[1].requests) :
                            TerminalFailure(probeOut[1].requests[i]))
        => ~(Outcome.kind = "result" /\ Outcome.ok)

StalenessReached ==
    /\ ScrapperProbed
    /\ probeOut[1].requests[1].data
    /\ ProbedBackend.items # <<>>
    /\ ValidTime(ProbedBackend.items[1].time)

LatestAge == ProbedBackend.items[1].time.age

WholeSeconds(ticks) == ticks \div TicksPerSecond

(***************************************************************************)
(* C19, as stated: the staleness stage fails exactly when the whole        *)
(* seconds elapsed since the latest record exceed the timeout, and then    *)
(* reports the floor of the elapsed minutes.                               *)
(***************************************************************************)
C19_StaleIffWholeSecondsExceed ==
    StalenessReached =>
        /\ (Outcome.stage = "stale") <=> (WholeSeconds(LatestAge) > ScrapperTimeout)
        /\ Outcome.stage = "stale" =>
              Outcome.minutes = WholeSeconds(LatestAge) \div SecondsPerMinute

(***************************************************************************)
(* C19, amended: the staleness stage fails exactly when the time elapsed   *)
(* since the latest record, fractions of a second included, exceeds the    *)
(* timeout; it then reports the floor of the elapsed minutes; a record     *)
(* 2000 s old fails against the timeout of 1800 s with 33 minutes.         *)
(***************************************************************************)
C19_StaleIffElapsedExceeds ==
    StalenessReached =>
        /\ (Outcome.stage = "stale") <=> (LatestAge > Seconds(ScrapperTimeout))
        /\ Outcome.stage = "stale" =>
              /\ Outcome.kind = "result" /\ ~Outcome.ok
              /\ Outcome.minutes = LatestAge \div Seconds(SecondsPerMinute)
        /\ LatestAge = Seconds(2000) => Outcome.stage = "stale" /\ Outcome.minutes = 33

(* A record written in KST a tick more than the timeout ago.               *)
C19_Witness ==
    /\ StalenessReached
    /\ ProbedBackend.items[1].time = Naive(ProbedBackend.now, Seconds(ScrapperTimeout) + 1)
    /\ Outcome = Result(FALSE, "stale", 30, <<>>)

ProbedHttp == probeIn[1].remote.http

(***************************************************************************)
(* C22: check_http returns ok exactly when a response arrived with a       *)
(* status from 200 to 399, check_pb_admin exactly when one arrived with    *)
(* status 200; a transport error gives a failed result in both.            *)
(***************************************************************************)
C22_StatusDecidesReachability ==
    /\ (ProbeDone /\ ProbedService.check_type = "http") =>
          /\ Outcome.kind = "result"
          /\ Outcome.ok <=> (/\ ProbedHttp.kind = "status"
                             /\ ProbedHttp.code \in 200..399)
    /\ (ProbeDone /\ ProbedService.check_type = "pb_admin") =>
          /\ Outcome.kind = "result"
          /\ Outcome.ok <=> (ProbedHttp.kind = "status" /\ ProbedHttp.code = 200)

(* A redirect status left as the final answer passes the HTTP probe.       *)
C22_Witness ==
    /\ ProbeDone /\ ProbedService.check_type = "http"
    /\ ProbedHttp = [kind |-> "status", code |-> 399]
    /\ Outcome.ok

(***************************************************************************)
(* C24: while a service is in a failure run the stored first_error_at is   *)
(* the checked_at of the first failed result of that run; after an ok      *)
(* evaluation it is cleared.                                               *)
(***************************************************************************)
C24_FirstErrorIsStartOfRun ==
    \A s \in Services :
        HasRow(s) =>
            LET n == Len(io[s])
                k == FailRunAt(io[s], n)
            IN IF k = 0 THEN RowOf(s).first_error_at = <<>>
               ELSE RowOf(s).first_error_at = <<io[s][n - k + 1].at>>

(* The third failure of a run that began after an ok evaluation.           *)
C24_Witness ==
    \E s \in Services :
        /\ Len(io[s]) >= 4
        /\ FailRunAt(io[s], Len(io[s])) = 3
        /\ RowOf(s).first_error_at = <<io[s][Len(io[s]) - 2].at>>
        /\ RowOf(s).last_checked > io[s][Len(io[s]) - 2].at

(***************************************************************************)
(* C27: every stored row has, with status ok, error_count 0, alerted 0 and *)
(* no first_error_at; with status error, error_count at least 1 and        *)
(* first_error_at set; and alerted = 1 exactly when error_count has        *)
(* reached the threshold.                                                  *)
(***************************************************************************)
C27_RowShape ==
    \A r \in service_state :
        /\ r.status \in {"ok", "error"}
        /\ r.status = "ok" =>
              r.error_count = 0 /\ r.alerted = 0 /\ r.first_error_at = <<>>
        /\ r.status = "error" => r.error_count >= 1 /\ r.first_error_at # <<>>
        /\ r.alerted = 1 <=> r.error_count >= threshold
        /\ r.alerted \in {0, 1}

(* A failure pending below a threshold of at least 2, next to a row past   *)
(* the threshold.                                                          *)
C27_Witness ==
    /\ threshold >= 2
    /\ \E r \in service_state :
          r.status = "error" /\ r.error_count < threshold /\ r.alerted = 0
    /\ \E r \in service_state : r.error_count > threshold /\ r.alerted = 1

(***************************************************************************)
(* C28: no StateChange returned has should_alert together with            *)
(* is_recovery or with already_alerted; Alerter.process sends an alert     *)
(* only for should_alert and a recovery only for is_recovery, so a failure *)
(* in an outage already alerted sends nothing.                             *)
(***************************************************************************)
C28_AtMostOneNotification ==
    /\ \A s \in Services : \A i \in 1..Len(io[s]) :
          /\ ~(io[s][i].should_alert /\ io[s][i].is_recovery)
          /\ ~(io[s][i].should_alert /\ io[s][i].already_alerted)
    /\ ret # <<>> =>
          /\ process(ret[1], threshold) = "alert" <=> ret[1].should_alert
          /\ process(ret[1], threshold) = "recovery" <=> ret[1].is_recovery
          /\ (~ret[1].current_ok /\ ret[1].already_alerted) =>
                 process(ret[1], threshold) = "none"

(* A further failure of an outage that was alerted: nothing is sent.       *)
C28_Witness ==
    /\ ret # <<>>
    /\ ~ret[1].current_ok /\ ret[1].already_alerted
    /\ ret[1].error_count > threshold
    /\ process(ret[1], threshold) = "none"

\* the districts failing in both of two fetched records
PersistentlyFailing == MarkedFailed(items[1]) \cap MarkedFailed(items[2])

(***************************************************************************)
(* C26: _check_district_metrics returns nothing when the fetch failed or   *)
(* fewer than 2 records came back; otherwise it returns one entry for each *)
(* persistently failing district and no other, in ascending order of       *)
(* district, each with the error text the latest record has for that       *)
(* district or the placeholder.                                            *)
(***************************************************************************)
C26_OneSortedEntryPerDistrict ==
    mpc = "done" =>
        IF ~fetched \/ Len(items) < 2 THEN mout = <<>>
        ELSE /\ ReportedDistricts = PersistentlyFailing
             /\ Len(mout) = Cardinality(PersistentlyFailing)
             /\ \A i \in 1..Len(mout) - 1 :
                    DistrictOrder(mout[i][1]) < DistrictOrder(mout[i + 1][1])
             /\ \A i \in 1..Len(mout) :
                    \E k \in 1..Len(items[1].district_results) :
                        LET r == items[1].district_results[k]
                        IN /\ r.district = mout[i][1]
                           /\ mout[i][2] = (IF r.error_message # ""
                                            THEN r.error_message
                                            ELSE "unknown cause")

AllStates == get_all_states(service_state, check_history)

\* entry e shows the last evaluation of trace and the statuses of its
\* last 10
ShowsLast(e, trace) ==
    LET last == trace[Len(trace)]
        recent == LastOf(trace, 10)
    IN /\ e.status = (IF last.ok THEN "ok" ELSE "error")
       /\ e.error_count = last.error_count
       /\ e.last_checked = last.at
       /\ e.history = [k \in 1..Len(recent) |-> IF recent[k].ok THEN "ok" ELSE "error"]

(***************************************************************************)
(* C23: after every evaluation get_all_states returns one entry for each   *)
(* service evaluated so far, in order of name; the entry of the service    *)
(* just evaluated has the status, message, error_count and last_checked of *)
(* that evaluation, the entries of the others are as they were, and every  *)
(* history is the statuses of the service's last min(n, 10) evaluations,   *)
(* oldest first.                                                           *)
(***************************************************************************)
C23_ReadGivesLastEvaluations ==
    [][\A before \in {AllStates} :
       \A after \in {get_all_states(service_state', check_history')} :
          /\ {after[i].name : i \in 1..Len(after)} =
                 {s \in Services : io'[s] # <<>>}
          /\ \A i \in 1..Len(after) - 1 :
                 NameOrder(after[i].name) < NameOrder(after[i + 1].name)
          /\ \A e \in {after[i] : i \in 1..Len(after)} :
                 /\ ShowsLast(e, io'[e.name])
                 /\ IF io'[e.name] # io[e.name]
                    THEN /\ ret'[1].service_name = e.name
                         /\ e.message = ret'[1].message
                    ELSE \E j \in 1..Len(before) : before[j] = e]_vars

(* Both services read back, one after more than 10 evaluations, the other  *)
(* in an error run evaluated last.                                         *)
C23_Witness ==
    /\ Len(AllStates) = 2
    /\ Len(io["svcA"]) > 10
    /\ Len(AllStates[1].history) = 10
    /\ AllStates[1].status = "ok"
    /\ AllStates[2].status = "error" /\ AllStates[2].message = "timeout"
    /\ AllStates[2].error_count = 2
    /\ \E k \in 1..9 : AllStates[2].history[k] # AllStates[2].history[k + 1]

RowsOf(state, s) == {r \in state : r.service_name = s}

\* the store with nothing but service s in it
Only(s) ==
    [state |-> RowsOf(service_state, s),
     history |-> HistoryOf(check_history, s),
     seq |-> history_seq]

(***************************************************************************)
(* C25: an evaluation of service X leaves the row and the history entries  *)
(* of every other service as they were, and the StateChange, the new row   *)
(* and the retained history of X are what the same evaluation gives on a   *)
(* store that holds nothing of the other services.                         *)
(***************************************************************************)
C25_EvaluateTouchesOneService ==
    [][\A x \in {ret'[1].service_name} :
       \A alone \in {evaluate(Only(x),
                              CheckResult(x, ret'[1].current_ok, ret'[1].message, clock),
                              threshold)} :
          /\ \A y \in Services \ {x} :
                 /\ RowsOf(service_state', y) = RowsOf(service_state, y)
                 /\ HistoryOf(check_history', y) = HistoryOf(check_history, y)
          /\ ret'[1] = alone.change
          /\ RowsOf(service_state', x) = RowsOf(alone.state, x)
          /\ HistoryOf(check_history', x) = HistoryOf(alone.history, x)]_vars

(* An evaluation that pruned its own service's history next to another     *)
(* service with a full history and a row in a different status.            *)
C25_Witness ==
    /\ ret # <<>>
    /\ \E y \in Services \ {ret[1].service_name} :
          /\ Len(io[ret[1].service_name]) > 10
          /\ Cardinality(HistoryOf(check_history, ret[1].service_name)) = 10
          /\ Cardinality(HistoryOf(check_history, y)) = 10
          /\ HasRow(y) /\ RowOf(y).status = "error" /\ RowOf(y).error_count >= 2
          /\ ret[1].current_ok

(***************************************************************************)
(* C21: when a statement of evaluate fails, that evaluation returns no     *)
(* StateChange and nothing is dispatched for it, none of its writes stays  *)
(* in the store, stop is called, and from then on no evaluation completes  *)
(* and no check cycle starts.                                              *)
(***************************************************************************)
C21_StoreFailureStopsTheMonitor ==
    [][/\ (run_pc # "store_failed" /\ run_pc' = "store_failed") =>
              /\ completed' = completed
              /\ durable' = completed /\ pending' = 0
              /\ ~running' /\ ~store_open'
              /\ started' = started
       /\ run_pc = "store_failed" =>
              /\ run_pc' = "store_failed"
              /\ started' = started /\ completed' = completed
              /\ durable' = durable /\ ~running' /\ ~store_open']_vars

(* The store failed in the second cycle, at the second service, and the    *)
(* display thread has ended as well.                                       *)
C21_Witness ==
    /\ run_pc = "store_failed"
    /\ started = 2 /\ run_i = 2
    /\ completed = Len(ServiceList) + 1 /\ durable = completed
    /\ ~running /\ ~store_open
    /\ dpc = "done"

(***************************************************************************)
(* C29: once stop has closed the connection no thread uses it: the main    *)
(* thread is in no check cycle, and the display thread never calls         *)
(* get_all_states on the closed connection.                                *)
(***************************************************************************)
C29_NoUseAfterClose ==
    /\ ~store_open => run_pc \in {"exited", "store_failed"}
    /\ dpc # "raised"

\* a step in which check_all is entered
CycleStarts == started' = started + 1

(***************************************************************************)
(* C30: the first check cycle starts before run has waited at all; every   *)
(* later one starts after a wait has returned and with no evaluation of    *)
(* the cycle before still under way; every wait that returns is followed   *)
(* by the call of check_all unless stop is called; and unless stop is      *)
(* called cycles start again and again without end.                        *)
(***************************************************************************)
C30_CyclesForever ==
    /\ [][CycleStarts =>
            /\ run_pc = "call" /\ pending = 0 /\ run_i = 0
            /\ IF started = 0 THEN wake.by = "none" /\ waited = 0
               ELSE wake.by \in {"timeout", "triggered"}]_vars
    /\ [](run_pc = "woke" => <>(run_pc = "call" \/ ~running))
    /\ ([]<><<CycleStarts>>_vars \/ <>(~running))

(* The second cycle under way, started by a wait that ran its whole        *)
(* interval, with the monitor still running.                               *)
C30_Witness ==
    /\ running
    /\ run_pc = "evaluate" /\ run_i = 2
    /\ started = 2 /\ completed = 1
    /\ wake.by = "timeout" /\ wake.waited = IntervalTicks
    /\ startedAtStop = <<>>

====
